---------------------------- MODULE Spec2Model ----------------------------
(***************************************************************************)
(* gotrntmessages: BitTorrent peer wire messages.                          *)
(*                                                                         *)
(* The repository holds two revisions of one Go file:                      *)
(*   src/gotrntmessages.go   ("prefixed":  the classifier reads the id at  *)
(*                            buf[4] and the decoder strips the <len>)     *)
(*   src/unnamed/part_000    ("stripped":  the classifier reads the id at  *)
(*                            buf[0], the caller has removed the <len>)    *)
(* EncodeMessage, the decoder's switch and the byte-order helpers are the  *)
(* same text in both.                                                      *)
(*                                                                         *)
(* A Go []byte is modelled as a slice descriptor [arr, off, n] into a heap *)
(* of backing arrays, so that cap(buf) and aliasing are what they are in   *)
(* Go.  A Go string is an immutable copy: a sequence of bytes.             *)
(***************************************************************************)
EXTENDS Integers, Sequences, FiniteSets, TLC

VARIABLES
    rev,       \* which revision of the file is linked in
    op,        \* the caller's last call
    heap,      \* backing arrays: rx (receive buffer), pl (payload of a record)
    buf,       \* the slice handed to GetMessageType / DecodeMessage
    msgType,   \* EncodeMessage's first argument
    msgData,   \* EncodeMessage's second argument
    encBuf,    \* EncodeMessage's first result
    encOk,     \* EncodeMessage's second result
    clsType,   \* GetMessageType's result
    decMsg,    \* DecodeMessage's first result
    decOk,     \* DecodeMessage's second result
    fault,     \* the call ended in a run-time panic (slice bounds out of range)
    snap,      \* bytes of the decoded tail when DecodeMessage returned
    writes     \* number of bytes the caller overwrote after the decode

vars == << rev, op, heap, buf, msgType, msgData, encBuf, encOk,
           clsType, decMsg, decOk, fault, snap, writes >>

-----------------------------------------------------------------------------
(* Bounds of the model *)

\* longest Bitfield / PieceBlock tail of a generated record or buffer
MaxTail == 2
\* most bytes the caller overwrites in its receive buffer after a decode
MaxWrites == 2

-----------------------------------------------------------------------------
(* Message types, src/gotrntmessages.go:12-26 *)

MsgTypeChoke == 0
MsgTypeUnchoke == 1
MsgTypeInterested == 2
MsgTypeNotInterested == 3
MsgTypeHave == 4
MsgTypeBitfield == 5
MsgTypeRequest == 6
MsgTypePiece == 7
MsgTypeCancel == 8
MsgTypePort == 9
MsgTypeHandshake == 10
MsgTypeKeepAlive == 11
MsgTypeInvalid == 12

\* "BitTorrent protocol"
goTrntHeader ==
    << 66, 105, 116, 84, 111, 114, 114, 101, 110, 116,
       32, 112, 114, 111, 116, 111, 99, 111, 108 >>

goTrntHeaderLen == Len(goTrntHeader) % 256

-----------------------------------------------------------------------------
(* Go's byte and bit operations *)

\* byte(x): conversion to uint8 keeps the low eight bits
byte(x) == x % 256

RECURSIVE BitOr(_, _)
\* a | b on unsigned integers
BitOr(a, b) ==
    IF a = 0 THEN b
    ELSE IF b = 0 THEN a
    ELSE 2 * BitOr(a \div 2, b \div 2)
         + (IF a % 2 = 1 \/ b % 2 = 1 THEN 1 ELSE 0)

RECURSIVE BitAnd(_, _)
\* a & b on unsigned integers
BitAnd(a, b) ==
    IF a = 0 \/ b = 0 THEN 0
    ELSE 2 * BitAnd(a \div 2, b \div 2)
         + (IF a % 2 = 1 /\ b % 2 = 1 THEN 1 ELSE 0)

\* a >> k
Shr(a, k) == a \div (2 ^ k)

\* a << k on an unsigned value of the given width: the bits shifted past the
\* width are dropped.  (Written without 2^width, which TLC's 32-bit
\* integers cannot hold; values with the top bit of a uint32 set are outside
\* the generated inputs.)
Shl(a, k, width) == (a % (2 ^ (width - k))) * (2 ^ k)

-----------------------------------------------------------------------------
(* Slices *)

Nil == [rec |-> "nil"]

NilSlice == [arr |-> "none", off |-> 0, n |-> 0]

\* len(s)
SliceLen(s) == s.n

\* cap(s): from the slice's start to the end of its backing array
SliceCap(h, s) == IF s.arr = "none" THEN 0 ELSE Len(h[s.arr]) - s.off

\* the bytes a slice shows
Bytes(h, s) ==
    IF s.n = 0 THEN << >> ELSE SubSeq(h[s.arr], s.off + 1, s.off + s.n)

\* s[i], for i < len(s)
At(h, s, i) == h[s.arr][s.off + i + 1]

\* s[lo:hi] is in range: 0 <= lo <= hi <= cap(s)
SliceOK(h, s, lo, hi) == 0 <= lo /\ lo <= hi /\ hi <= SliceCap(h, s)

\* s[lo:hi]
Slice(s, lo, hi) == [arr |-> s.arr, off |-> s.off + lo, n |-> hi - lo]

-----------------------------------------------------------------------------
(* Byte-order helpers *)

getBytesFromUint32(num) ==
    << byte(BitAnd(Shr(num, 24), 255)),
       byte(BitAnd(Shr(num, 16), 255)),
       byte(BitAnd(Shr(num, 8), 255)),
       byte(BitAnd(num, 255)) >>

getBytesFromUint16(num) ==
    << byte(BitOr(Shr(num, 8), 255)),
       byte(BitOr(num, 255)) >>

getUint16FromBytes(b) ==
    IF Len(b) < 2 THEN 0
    ELSE BitOr(Shl(b[1], 8, 16), b[2])

getUint32FromBytes(b) ==
    IF Len(b) < 4 THEN 0
    ELSE BitOr(BitOr(BitOr(Shl(b[1], 24, 32), Shl(b[2], 16, 32)),
                     Shl(b[3], 8, 32)), b[4])

-----------------------------------------------------------------------------
(* EncodeMessage: build the raw buffer to send to a peer.                   *)
(* Result: [bytes |-> buf.Bytes(), ok |-> the bool].                         *)

EncResult(bytes, ok) == [bytes |-> bytes, ok |-> ok]

\* case MsgTypeChoke, MsgTypeUnchoke, MsgTypeInterested, MsgTypeNotInterested
EncodeNoPayload(mt) ==
    EncResult(getBytesFromUint32(1) \o << byte(mt) >>, TRUE)

\* case MsgTypeHave
EncodeHave(md) ==
    IF md.rec # "MsgDataHave" THEN EncResult(<< >>, FALSE)
    ELSE EncResult(getBytesFromUint32(5) \o << byte(4) >>
                   \o getBytesFromUint32(md.PieceIndex), TRUE)

\* case MsgTypeBitfield
EncodeBitfield(md, h) ==
    IF md.rec # "MsgDataBitfield" THEN EncResult(<< >>, FALSE)
    ELSE IF SliceLen(md.Bitfield) <= 0 THEN EncResult(<< >>, FALSE)
    ELSE LET msgLen == 1 + SliceLen(md.Bitfield)
         IN  EncResult(getBytesFromUint32(msgLen) \o << byte(5) >>
                       \o Bytes(h, md.Bitfield), TRUE)

\* case MsgTypeRequest, MsgTypeCancel
EncodeRequestCancel(mt, md) ==
    IF md.rec # "MsgDataRequestCancel" THEN EncResult(<< >>, FALSE)
    ELSE EncResult(getBytesFromUint32(13)
                   \o (IF mt = MsgTypeRequest THEN << byte(6) >>
                                              ELSE << byte(8) >>)
                   \o getBytesFromUint32(md.PieceIndex)
                   \o getBytesFromUint32(md.PieceBytesBegin)
                   \o getBytesFromUint32(md.PieceBytesLen), TRUE)

\* EncodePiece with the id byte left out of the length prefix
EncodePiece_LenWithoutId(md, h) ==
    IF md.rec # "MsgDataPiece" THEN EncResult(<< >>, FALSE)
    ELSE IF SliceLen(md.PieceBlock) <= 0 THEN EncResult(<< >>, FALSE)
    ELSE LET msgLen == 8 + SliceLen(md.PieceBlock)
         IN  EncResult(getBytesFromUint32(msgLen) \o << byte(7) >>
                       \o getBytesFromUint32(md.PieceIndex)
                       \o getBytesFromUint32(md.PieceBytesBegin)
                       \o Bytes(h, md.PieceBlock), TRUE)

\* case MsgTypePiece
EncodePiece(md, h) ==
    IF md.rec # "MsgDataPiece" THEN EncResult(<< >>, FALSE)
    ELSE IF SliceLen(md.PieceBlock) <= 0 THEN EncResult(<< >>, FALSE)
    ELSE LET msgLen == 9 + SliceLen(md.PieceBlock)
         IN  EncResult(getBytesFromUint32(msgLen) \o << byte(7) >>
                       \o getBytesFromUint32(md.PieceIndex)
                       \o getBytesFromUint32(md.PieceBytesBegin)
                       \o Bytes(h, md.PieceBlock), TRUE)

\* EncodePort going on with the zero value of a failed type assertion
EncodePort_IgnoresAssertion(md) ==
    LET port == IF md.rec # "MsgDataPort" THEN 0 ELSE md.PeerPort
    IN  EncResult(getBytesFromUint32(3) \o << byte(9) >>
                  \o getBytesFromUint16(port), TRUE)

\* case MsgTypePort
EncodePort(md) ==
    IF md.rec # "MsgDataPort" THEN EncResult(<< >>, FALSE)
    ELSE EncResult(getBytesFromUint32(3) \o << byte(9) >>
                   \o getBytesFromUint16(md.PeerPort), TRUE)

\* case MsgTypeHandshake
EncodeHandshake(md) ==
    IF md.rec # "MsgDataHandshake" THEN EncResult(<< >>, FALSE)
    ELSE EncResult(<< goTrntHeaderLen >> \o goTrntHeader
                   \o [i \in 1..8 |-> 0]
                   \o md.InfoHash \o md.PeerId, TRUE)

\* case MsgTypeKeepAlive
EncodeKeepAlive == EncResult(getBytesFromUint32(0), TRUE)

EncodeMessage(mt, md, h) ==
    IF mt \in { MsgTypeChoke, MsgTypeUnchoke,
                MsgTypeInterested, MsgTypeNotInterested }
    THEN EncodeNoPayload(mt)
    ELSE IF md = Nil THEN EncResult(<< >>, FALSE)
    ELSE IF mt = MsgTypeHave THEN EncodeHave(md)
    ELSE IF mt = MsgTypeBitfield THEN EncodeBitfield(md, h)
    ELSE IF mt \in { MsgTypeRequest, MsgTypeCancel }
         THEN EncodeRequestCancel(mt, md)
    ELSE IF mt = MsgTypePiece THEN EncodePiece(md, h)
    ELSE IF mt = MsgTypePort THEN EncodePort(md)
    ELSE IF mt = MsgTypeHandshake THEN EncodeHandshake(md)
    ELSE IF mt = MsgTypeKeepAlive THEN EncodeKeepAlive
    ELSE EncResult(<< >>, FALSE)

-----------------------------------------------------------------------------
(* GetMessageType: the message type of a raw buffer received from a peer    *)

\* buf starts with the protocol-name length and the protocol name
IsHandshakeHeader(h, b) ==
    /\ SliceLen(b) > goTrntHeaderLen
    /\ At(h, b, 0) = goTrntHeaderLen
    /\ Bytes(h, Slice(b, 1, byte(1 + goTrntHeaderLen))) = goTrntHeader

\* src/gotrntmessages.go: the id follows the four bytes of <len>
GetMessageType(h, b) ==
    IF IsHandshakeHeader(h, b) THEN MsgTypeHandshake
    ELSE IF SliceLen(b) > 4
         THEN LET id == At(h, b, 4)
              IN  IF id > MsgTypeInvalid THEN MsgTypeInvalid ELSE id
    ELSE MsgTypeInvalid

\* src/unnamed/part_000: the buffer starts at the id
GetMessageType_part000(h, b) ==
    IF SliceLen(b) <= 0 THEN MsgTypeInvalid
    ELSE IF IsHandshakeHeader(h, b) THEN MsgTypeHandshake
    ELSE IF At(h, b, 0) >= MsgTypeChoke /\ At(h, b, 0) <= MsgTypePort
         THEN LET id == At(h, b, 0)
              IN  IF id > MsgTypeInvalid THEN MsgTypeInvalid ELSE id
    ELSE MsgTypeInvalid

-----------------------------------------------------------------------------
(* DecodeMessage: decode a raw buffer into a record.                        *)
(* Result: [msg |-> the MsgData, ok |-> the bool, panic |-> the call died   *)
(* with "slice bounds out of range" and returned nothing].                   *)

DecResult(msg) == [msg |-> msg, ok |-> TRUE, panic |-> FALSE]

DecFail == [msg |-> Nil, ok |-> FALSE, panic |-> FALSE]

DecPanic == [msg |-> Nil, ok |-> FALSE, panic |-> TRUE]

\* case MsgTypeChoke, MsgTypeUnchoke
DecodeChoke(mt) ==
    DecResult([rec |-> "MsgDataChoke", MsgType |-> mt,
               IsChoking |-> (mt = MsgTypeChoke)])

\* case MsgTypeInterested, MsgTypeNotInterested
DecodeInterested(mt) ==
    DecResult([rec |-> "MsgDataInterested", MsgType |-> mt,
               IsInterested |-> (mt = MsgTypeInterested)])

\* case MsgTypeHave
DecodeHave(mt, h, b) ==
    IF ~SliceOK(h, b, 1, 5) THEN DecPanic
    ELSE DecResult([rec |-> "MsgDataHave", MsgType |-> mt,
                    PieceIndex |->
                        getUint32FromBytes(Bytes(h, Slice(b, 1, 5)))])

\* case MsgTypeBitfield: the record keeps buf[1:], a view of the caller's array
DecodeBitfield(mt, h, b) ==
    IF ~SliceOK(h, b, 1, SliceLen(b)) THEN DecPanic
    ELSE DecResult([rec |-> "MsgDataBitfield", MsgType |-> mt,
                    Bitfield |-> Slice(b, 1, SliceLen(b))])

\* case MsgTypePiece: the record keeps buf[9:], a view of the caller's array
DecodePiece(mt, h, b) ==
    IF ~SliceOK(h, b, 1, 5) THEN DecPanic
    ELSE IF ~SliceOK(h, b, 5, 9) THEN DecPanic
    ELSE IF ~SliceOK(h, b, 9, SliceLen(b)) THEN DecPanic
    ELSE DecResult([rec |-> "MsgDataPiece", MsgType |-> mt,
                    PieceIndex |->
                        getUint32FromBytes(Bytes(h, Slice(b, 1, 5))),
                    PieceBytesBegin |->
                        getUint32FromBytes(Bytes(h, Slice(b, 5, 9))),
                    PieceBlock |-> Slice(b, 9, SliceLen(b))])

\* case MsgTypeRequest, MsgTypeCancel
DecodeRequestCancel(mt, h, b) ==
    IF ~SliceOK(h, b, 1, 5) THEN DecPanic
    ELSE IF ~SliceOK(h, b, 5, 9) THEN DecPanic
    ELSE IF ~SliceOK(h, b, 9, 13) THEN DecPanic
    ELSE DecResult([rec |-> "MsgDataRequestCancel", MsgType |-> mt,
                    PieceIndex |->
                        getUint32FromBytes(Bytes(h, Slice(b, 1, 5))),
                    PieceBytesBegin |->
                        getUint32FromBytes(Bytes(h, Slice(b, 5, 9))),
                    PieceBytesLen |->
                        getUint32FromBytes(Bytes(h, Slice(b, 9, 13)))])

\* case MsgTypePort
DecodePort(mt, h, b) ==
    IF ~SliceOK(h, b, 1, 3) THEN DecPanic
    ELSE DecResult([rec |-> "MsgDataPort", MsgType |-> mt,
                    PeerPort |->
                        getUint16FromBytes(Bytes(h, Slice(b, 1, 3)))])

\* case MsgTypeHandshake
DecodeHandshake(mt, h, b) ==
    IF \/ ~SliceOK(h, b, 1, 20) \/ ~SliceOK(h, b, 20, 28)
       \/ ~SliceOK(h, b, 28, 48) \/ ~SliceOK(h, b, 48, 68)
    THEN DecPanic
    ELSE DecResult([rec |-> "MsgDataHandshake", MsgType |-> mt,
                    ProtocolStrLen |-> At(h, b, 0),
                    ProtocolStr |-> Bytes(h, Slice(b, 1, 20)),
                    ReservedBytes |-> Bytes(h, Slice(b, 20, 28)),
                    InfoHash |-> Bytes(h, Slice(b, 28, 48)),
                    PeerId |-> Bytes(h, Slice(b, 48, 68))])

\* switch msgType { ... } return nil, false
DecodeSwitch(mt, h, b) ==
    IF mt \in { MsgTypeChoke, MsgTypeUnchoke } THEN DecodeChoke(mt)
    ELSE IF mt \in { MsgTypeInterested, MsgTypeNotInterested }
         THEN DecodeInterested(mt)
    ELSE IF mt = MsgTypeHave THEN DecodeHave(mt, h, b)
    ELSE IF mt = MsgTypeBitfield THEN DecodeBitfield(mt, h, b)
    ELSE IF mt = MsgTypePiece THEN DecodePiece(mt, h, b)
    ELSE IF mt \in { MsgTypeRequest, MsgTypeCancel }
         THEN DecodeRequestCancel(mt, h, b)
    ELSE IF mt = MsgTypePort THEN DecodePort(mt, h, b)
    ELSE IF mt = MsgTypeHandshake THEN DecodeHandshake(mt, h, b)
    ELSE DecFail

\* DecodeMessage leaving the <len> prefix in front of the id
DecodeMessage_KeepsPrefix(h, b) ==
    IF SliceLen(b) <= 0 THEN DecFail
    ELSE DecodeSwitch(GetMessageType(h, b), h, b)

\* src/gotrntmessages.go: classify, drop the <len> prefix, decode
DecodeMessage(h, b) ==
    IF SliceLen(b) <= 0 THEN DecFail
    ELSE LET mt == GetMessageType(h, b)
         IN  IF mt >= MsgTypeChoke /\ mt <= MsgTypePort
             THEN IF ~SliceOK(h, b, 4, SliceLen(b)) THEN DecPanic
                  ELSE DecodeSwitch(mt, h, Slice(b, 4, SliceLen(b)))
             ELSE DecodeSwitch(mt, h, b)

\* src/unnamed/part_000: classify, decode
DecodeMessage_part000(h, b) ==
    IF SliceLen(b) <= 0 THEN DecFail
    ELSE DecodeSwitch(GetMessageType_part000(h, b), h, b)

-----------------------------------------------------------------------------
(* The two revisions behind one call *)

Revisions == { "gotrntmessages.go", "part_000" }

Classify(r, h, b) ==
    IF r = "gotrntmessages.go" THEN GetMessageType(h, b)
    ELSE GetMessageType_part000(h, b)

Decode(r, h, b) ==
    IF r = "gotrntmessages.go" THEN DecodeMessage(h, b)
    ELSE DecodeMessage_part000(h, b)

-----------------------------------------------------------------------------
(* Inputs the caller draws from *)

\* uint32 field values: the spec's 42, 0x01020304, 0x1AE1FF80
U32Vals == { 42, 16909060, 451018624 }

\* uint16 port values: 0, 6881 = 0x1AE1, 0x0102, 0xFFFF
U16Vals == { 0, 6881, 258, 65535 }

TailByteVals == { 1, 127 }

Tails == UNION { [1..n -> TailByteVals] : n \in 0..MaxTail }

\* a string of n bytes c
Str(n, c) == [i \in 1..n |-> c]

\* info hashes and peer ids: 20 bytes, and strings that are not 20 bytes
HashVals == { Str(20, 170), Str(20, 17), Str(3, 170), Str(21, 17) }

PeerIdVals == { Str(20, 45), Str(20, 90), Str(19, 45) }

ReservedVals == { Str(8, 0), Str(8, 1) }

\* values of the MsgType field of a record
TagVals == MsgTypeChoke..MsgTypeInvalid

\* kinds passed to EncodeMessage: every message type and one past Invalid
KindVals == MsgTypeChoke..(MsgTypeInvalid + 1)

\* records without a []byte field
PlainRecords ==
    { Nil }
    \cup { [rec |-> "MsgDataCommon", MsgType |-> t] : t \in TagVals }
    \cup { [rec |-> "MsgDataChoke", MsgType |-> t, IsChoking |-> c] :
             t \in TagVals, c \in BOOLEAN }
    \cup { [rec |-> "MsgDataInterested", MsgType |-> t, IsInterested |-> c] :
             t \in TagVals, c \in BOOLEAN }
    \cup { [rec |-> "MsgDataHave", MsgType |-> t, PieceIndex |-> i] :
             t \in TagVals, i \in U32Vals }
    \cup { [rec |-> "MsgDataRequestCancel", MsgType |-> t, PieceIndex |-> i,
            PieceBytesBegin |-> g, PieceBytesLen |-> l] :
             t \in TagVals, i \in U32Vals, g \in U32Vals, l \in U32Vals }
    \cup { [rec |-> "MsgDataPort", MsgType |-> t, PeerPort |-> q] :
             t \in TagVals, q \in U16Vals }
    \cup { [rec |-> "MsgDataHandshake", MsgType |-> t,
            ProtocolStrLen |-> goTrntHeaderLen, ProtocolStr |-> goTrntHeader,
            ReservedBytes |-> r, InfoHash |-> i, PeerId |-> q] :
             t \in TagVals, r \in ReservedVals, i \in HashVals,
             q \in PeerIdVals }

\* a []byte field holding the whole payload array pl (nil when it is empty)
PayloadSlice(t) ==
    IF Len(t) = 0 THEN NilSlice ELSE [arr |-> "pl", off |-> 0, n |-> Len(t)]

\* records with a []byte field, over the payload array t
TailRecords(t) ==
    { [rec |-> "MsgDataBitfield", MsgType |-> g,
       Bitfield |-> PayloadSlice(t)] : g \in TagVals }
    \cup { [rec |-> "MsgDataPiece", MsgType |-> g, PieceIndex |-> i,
            PieceBytesBegin |-> j, PieceBlock |-> PayloadSlice(t)] :
             g \in TagVals, i \in U32Vals, j \in U32Vals }

\* four bytes, most significant first, as a peer puts them on the wire
WireU32(v) ==
    << v \div 16777216, (v \div 65536) % 256, (v \div 256) % 256, v % 256 >>

\* the three uint32 fields of the generated frames
WireFields ==
    { << 42, 16909060, 451018624 >>,
      << 16909060, 42, 42 >>,
      << 451018624, 451018624, 16909060 >> }

\* <id><index><begin><length><tail>, for every id byte up to one past Invalid
WireFrames ==
    { << id >> \o WireU32(f[1]) \o WireU32(f[2]) \o WireU32(f[3]) \o t :
        id \in KindVals, f \in WireFields, t \in Tails }

\* <len><id>... : a frame with its length prefix
WirePrefixed == { WireU32(Len(m)) \o m : m \in WireFrames }

\* <pstrlen><pstr><reserved><info_hash><peer_id>, and one with a byte more
WireHandshakes ==
    { << goTrntHeaderLen >> \o goTrntHeader \o r \o i \o q \o x :
        r \in ReservedVals, i \in { Str(20, 170) }, q \in { Str(20, 45) },
        x \in { << >>, << 9 >> } }

\* a receive buffer: the first n bytes of a message, in an array that ends
\* there or that holds the rest of the message too
Cuts(m) ==
    UNION { { [mem |-> SubSeq(m, 1, c), n |-> n] : c \in { n, Len(m) } } :
              n \in 0..Len(m) }

RxInputs ==
    UNION { Cuts(m) : m \in WireFrames \cup WirePrefixed \cup WireHandshakes }

\* the tail a decoded record holds, if it holds one
TailOf(m) ==
    IF m.rec = "MsgDataBitfield" THEN m.Bitfield
    ELSE IF m.rec = "MsgDataPiece" THEN m.PieceBlock
    ELSE NilSlice

-----------------------------------------------------------------------------
(* The caller.  The three functions keep no state between calls, so a call *)
(* is modelled from the initial state: what it returns does not depend on   *)
(* the calls before it.                                                      *)

EmptyHeap == [rx |-> << >>, pl |-> << >>]

Init ==
    /\ rev \in Revisions
    /\ op = "init"
    /\ heap = EmptyHeap
    /\ buf = NilSlice
    /\ msgType = MsgTypeInvalid
    /\ msgData = Nil
    /\ encBuf = << >>
    /\ encOk = FALSE
    /\ clsType = MsgTypeInvalid
    /\ decMsg = Nil
    /\ decOk = FALSE
    /\ fault = FALSE
    /\ snap = << >>
    /\ writes = 0

\* EncodeMessage(mt, md), the record md lying over the payload array t
EncodeOf(mt, md, t) ==
    LET h == [rx |-> << >>, pl |-> t]
        r == EncodeMessage(mt, md, h)
    IN  /\ op' = "encode"
        /\ heap' = h
        /\ msgType' = mt
        /\ msgData' = md
        /\ encBuf' = r.bytes
        /\ encOk' = r.ok
        /\ buf' = NilSlice
        /\ clsType' = MsgTypeInvalid
        /\ decMsg' = Nil
        /\ decOk' = FALSE
        /\ fault' = FALSE
        /\ snap' = << >>
        /\ writes' = 0
        /\ UNCHANGED rev

\* the caller builds a record without a []byte field and encodes it
EncodePlain ==
    /\ op = "init"
    /\ \E mt \in KindVals, md \in PlainRecords : EncodeOf(mt, md, << >>)

\* the caller builds a Bitfield or Piece record and encodes it
EncodeTail ==
    /\ op = "init"
    /\ \E mt \in KindVals, t \in Tails :
         \E md \in TailRecords(t) : EncodeOf(mt, md, t)

\* what a peer running the same revision hands to its decoder when it
\* receives encBuf: gotrntmessages.go takes the message with its <len>;
\* part_000 takes it after the caller has read the four bytes of <len>
\* (a handshake has none)
Received(r, mt, bytes) ==
    IF r = "gotrntmessages.go" \/ mt = MsgTypeHandshake THEN bytes
    ELSE SubSeq(bytes, 5, Len(bytes))

\* the encoded message is sent, received, and decoded
Loopback ==
    /\ op = "encode"
    /\ encOk
    /\ LET rx == Received(rev, msgType, encBuf)
           h == [heap EXCEPT !.rx = rx]
           b == [arr |-> "rx", off |-> 0, n |-> Len(rx)]
           r == Decode(rev, h, b)
       IN  /\ op' = "loopback"
           /\ heap' = h
           /\ buf' = b
           /\ clsType' = Classify(rev, h, b)
           /\ decMsg' = r.msg
           /\ decOk' = r.ok
           /\ fault' = r.panic
           /\ snap' = Bytes(h, TailOf(r.msg))
    /\ UNCHANGED << rev, msgType, msgData, encBuf, encOk, writes >>

\* the caller calls GetMessageType on a receive buffer
ClassifyBuffer ==
    /\ op = "init"
    /\ \E in \in RxInputs :
      LET h == [rx |-> in.mem, pl |-> << >>]
          b == [arr |-> "rx", off |-> 0, n |-> in.n]
      IN  /\ op' = "classify"
          /\ heap' = h
          /\ buf' = b
          /\ clsType' = Classify(rev, h, b)
          /\ decMsg' = Nil
          /\ decOk' = FALSE
          /\ fault' = FALSE
          /\ snap' = << >>
          /\ writes' = 0
          /\ msgType' = MsgTypeInvalid
          /\ msgData' = Nil
          /\ encBuf' = << >>
          /\ encOk' = FALSE
          /\ UNCHANGED rev

\* DecodeMessage on the receive buffer in
DecodeOf(in) ==
    LET h == [rx |-> in.mem, pl |-> << >>]
        b == [arr |-> "rx", off |-> 0, n |-> in.n]
        r == Decode(rev, h, b)
    IN  /\ op' = "decode"
        /\ heap' = h
        /\ buf' = b
        /\ clsType' = Classify(rev, h, b)
        /\ decMsg' = r.msg
        /\ decOk' = r.ok
        /\ fault' = r.panic
        /\ snap' = Bytes(h, TailOf(r.msg))
        /\ writes' = 0
        /\ msgType' = MsgTypeInvalid
        /\ msgData' = Nil
        /\ encBuf' = << >>
        /\ encOk' = FALSE
        /\ UNCHANGED rev

\* the caller calls DecodeMessage on a receive buffer
DecodeBuffer ==
    /\ op = "init"
    /\ \E in \in RxInputs : DecodeOf(in)

Next == EncodePlain \/ EncodeTail \/ Loopback \/ ClassifyBuffer \/ DecodeBuffer

Spec == Init /\ [][Next]_vars

-----------------------------------------------------------------------------
(* The caller reuses its receive buffer after a decode *)

\* frames with one choice of the three uint32 fields
FewFrames ==
    { << id >> \o WireU32(42) \o WireU32(16909060) \o WireU32(451018624)
        \o t : id \in KindVals, t \in Tails }

\* whole messages, with and without <len>, as the caller's receive buffers
FrameInputs ==
    { [mem |-> m, n |-> Len(m)] :
        m \in FewFrames \cup { WireU32(Len(x)) \o x : x \in FewFrames } }

\* bytes the caller writes over its buffer
OverwriteVals == { 255 }

\* the caller calls DecodeMessage on a whole message
DecodeFrame ==
    /\ op = "init"
    /\ \E in \in FrameInputs : DecodeOf(in)

\* the caller writes one byte of the buffer it had handed to DecodeMessage
Overwrite ==
    /\ op \in { "decode", "overwrite" }
    /\ ~fault
    /\ writes < MaxWrites
    /\ \E i \in 1..SliceLen(buf), v \in OverwriteVals :
         /\ heap.rx[buf.off + i] # v
         /\ heap' = [heap EXCEPT !.rx[buf.off + i] = v]
    /\ op' = "overwrite"
    /\ writes' = writes + 1
    /\ UNCHANGED << rev, buf, msgType, msgData, encBuf, encOk,
                    clsType, decMsg, decOk, fault, snap >>

NextAlias == DecodeFrame \/ Overwrite

SpecAlias == Init /\ [][NextAlias]_vars

-----------------------------------------------------------------------------
(* Vocabulary of the properties: the wire format as the protocol states it, *)
(* written with plain arithmetic and not with the helpers above.             *)

\* the big-endian value of the four bytes at zero-based offset o of b
WireValue32(b, o) ==
    b[o + 1] * 16777216 + b[o + 2] * 65536 + b[o + 3] * 256 + b[o + 4]

\* the big-endian value of the two bytes at zero-based offset o of b
WireValue16(b, o) == b[o + 1] * 256 + b[o + 2]

\* the record type a kind carries
RecordOf(k) ==
    IF k \in { MsgTypeChoke, MsgTypeUnchoke } THEN "MsgDataChoke"
    ELSE IF k \in { MsgTypeInterested, MsgTypeNotInterested }
         THEN "MsgDataInterested"
    ELSE IF k = MsgTypeHave THEN "MsgDataHave"
    ELSE IF k = MsgTypeBitfield THEN "MsgDataBitfield"
    ELSE IF k \in { MsgTypeRequest, MsgTypeCancel } THEN "MsgDataRequestCancel"
    ELSE IF k = MsgTypePiece THEN "MsgDataPiece"
    ELSE IF k = MsgTypePort THEN "MsgDataPort"
    ELSE IF k = MsgTypeHandshake THEN "MsgDataHandshake"
    ELSE "MsgDataCommon"

\* the least number of bytes of a message of kind k, counted from its id byte
\* (from its first byte for a handshake)
MinLen(k) ==
    IF k = MsgTypeHave THEN 5
    ELSE IF k \in { MsgTypeRequest, MsgTypeCancel } THEN 13
    ELSE IF k = MsgTypePiece THEN 9
    ELSE IF k = MsgTypePort THEN 3
    ELSE IF k = MsgTypeHandshake THEN 68
    ELSE 1

\* where a revision looks for the id byte
IdPos(r) == IF r = "gotrntmessages.go" THEN 4 ELSE 0

\* the kinds whose record EncodeMessage reads
PayloadKinds ==
    { MsgTypeHave, MsgTypeBitfield, MsgTypeRequest, MsgTypePiece,
      MsgTypeCancel, MsgTypePort, MsgTypeHandshake }

NoPayloadKinds ==
    { MsgTypeChoke, MsgTypeUnchoke, MsgTypeInterested, MsgTypeNotInterested }

\* the bytes the buffer handed to the decoder shows
BufBytes == Bytes(heap, buf)

\* the decoded record is the message of kind id whose id byte is at offset p
\* of the buffer: fields big-endian at p+1, p+5, p+9, tail after them
DecodedAt(p, id) ==
    /\ decMsg.rec = RecordOf(id)
    /\ decMsg.MsgType = id
    /\ id \in { MsgTypeChoke, MsgTypeUnchoke }
         => decMsg.IsChoking = (id = MsgTypeChoke)
    /\ id \in { MsgTypeInterested, MsgTypeNotInterested }
         => decMsg.IsInterested = (id = MsgTypeInterested)
    /\ id = MsgTypeHave => decMsg.PieceIndex = WireValue32(BufBytes, p + 1)
    /\ id = MsgTypeBitfield
         => Bytes(heap, decMsg.Bitfield)
              = SubSeq(BufBytes, p + 2, Len(BufBytes))
    /\ id \in { MsgTypeRequest, MsgTypeCancel }
         => /\ decMsg.PieceIndex = WireValue32(BufBytes, p + 1)
            /\ decMsg.PieceBytesBegin = WireValue32(BufBytes, p + 5)
            /\ decMsg.PieceBytesLen = WireValue32(BufBytes, p + 9)
    /\ id = MsgTypePiece
         => /\ decMsg.PieceIndex = WireValue32(BufBytes, p + 1)
            /\ decMsg.PieceBytesBegin = WireValue32(BufBytes, p + 5)
            /\ Bytes(heap, decMsg.PieceBlock)
                 = SubSeq(BufBytes, p + 10, Len(BufBytes))
    /\ id = MsgTypePort => decMsg.PeerPort = WireValue16(BufBytes, p + 1)

\* the buffer holds, from offset p, an id in Choke..Port and at least the
\* bytes a message of that kind needs
WellFormedAt(p) ==
    /\ SliceLen(buf) > p
    /\ BufBytes[p + 1] \in MsgTypeChoke..MsgTypePort
    /\ SliceLen(buf) - p >= MinLen(BufBytes[p + 1])

-----------------------------------------------------------------------------
(* C10 *)

\* C10: framing invariant of the encoder.  For every kind other than
\* Handshake, whenever EncodeMessage succeeds the output has at least four
\* bytes, the big-endian value of the first four equals the number of bytes
\* after them, and when that number is not zero the fifth byte is the kind;
\* whenever EncodeMessage fails the returned bytes are empty.
C10_Framing ==
    op \in { "encode", "loopback" } =>
      /\ (encOk /\ msgType # MsgTypeHandshake) =>
           /\ Len(encBuf) >= 4
           /\ WireValue32(encBuf, 0) = Len(encBuf) - 4
           /\ Len(encBuf) - 4 # 0 => encBuf[5] = msgType
      /\ ~encOk => encBuf = << >>

\* a Piece with a block was encoded
C10_Witness ==
    /\ op = "encode"
    /\ encOk
    /\ msgType = MsgTypePiece
    /\ Len(encBuf) > 13

-----------------------------------------------------------------------------
(* C6 *)

\* the record md is the variant of kind k: its record type is the one k
\* carries and the MsgType it reports is k
IsVariantOf(md, k) ==
    /\ md # Nil
    /\ md.rec = RecordOf(k)
    /\ md.MsgType = k

\* C6 as stated: EncodeMessage(K, M) fails whenever M's own kind (the MsgType
\* it reports, and its record type) is not K.
C6_MismatchFails ==
    (op = "encode" /\ msgData # Nil /\ ~IsVariantOf(msgData, msgType))
      => ~encOk

\* C6 as amended: EncodeMessage(K, M) fails, returning no bytes, whenever K
\* is Have, Bitfield, Request, Piece, Cancel, Port or Handshake and M is nil
\* or M's record type is not the one K carries; the MsgType field M reports
\* is not compared with K (a record of the right type with a non-empty tail
\* is encoded whatever MsgType it reports); for Choke, Unchoke, Interested
\* and NotInterested (any M) and for KeepAlive (any non-nil M) the encoder
\* succeeds whatever M is.
C6_RecordTypeChecked ==
    op = "encode" =>
      /\ (msgType \in PayloadKinds
            /\ (msgData = Nil \/ msgData.rec # RecordOf(msgType)))
           => (~encOk /\ encBuf = << >>)
      /\ (msgType \in PayloadKinds /\ msgData # Nil
            /\ msgData.rec = RecordOf(msgType)
            /\ (msgType \in { MsgTypeBitfield, MsgTypePiece }
                  => SliceLen(TailOf(msgData)) > 0))
           => encOk
      /\ msgType \in NoPayloadKinds => encOk
      /\ (msgType = MsgTypeKeepAlive /\ msgData # Nil) => encOk

\* Have was asked for with a Port record, and the encoder refused
C6_Witness ==
    /\ op = "encode"
    /\ msgType = MsgTypeHave
    /\ msgData.rec = "MsgDataPort"
    /\ ~encOk

-----------------------------------------------------------------------------
(* C5 *)

\* C5 as stated: for every buffer b whose first byte is an id in 0..9 and
\* whose length meets the minimum for that kind, GetMessageType(b) is b[0]
\* and DecodeMessage(b) succeeds with the message of kind b[0] whose fields
\* are the big-endian values at offsets 1, 5, 9 and whose tail is the bytes
\* after the fixed fields.
C5_StrippedConvention ==
    (op = "decode" /\ WellFormedAt(0)) =>
      /\ clsType = BufBytes[1]
      /\ decOk
      /\ ~fault
      /\ DecodedAt(0, BufBytes[1])

\* C5 as amended: each revision uses one convention in both the classifier
\* and the decoder.  In part_000 the claim holds as stated (id at b[0]).  In
\* gotrntmessages.go the buffer starts with the four bytes of <len>: for
\* every buffer b of more than 4 bytes whose byte b[4] is an id in 0..9 and
\* whose length less 4 meets the minimum for that kind, GetMessageType(b) is
\* b[4] and DecodeMessage(b) succeeds with the message of kind b[4] whose
\* fields are the big-endian values at offsets 5, 9, 13 and whose tail is the
\* bytes after the fixed fields.
C5_ConventionPerRevision ==
    (op = "decode" /\ WellFormedAt(IdPos(rev))) =>
      /\ clsType = BufBytes[IdPos(rev) + 1]
      /\ decOk
      /\ ~fault
      /\ DecodedAt(IdPos(rev), BufBytes[IdPos(rev) + 1])

\* gotrntmessages.go decoded 00 00 00 xx 04 00 00 00 2A ... to Have{42}
C5_Witness ==
    /\ op = "decode"
    /\ rev = "gotrntmessages.go"
    /\ WellFormedAt(4)
    /\ decOk
    /\ decMsg.rec = "MsgDataHave"
    /\ decMsg.PieceIndex = 42

-----------------------------------------------------------------------------
(* C1 *)

\* P is a valid payload for kind K
ValidPayload(k, md) ==
    /\ k \in MsgTypeChoke..MsgTypeKeepAlive
    /\ IsVariantOf(md, k)
    /\ k \in { MsgTypeChoke, MsgTypeUnchoke }
         => md.IsChoking = (k = MsgTypeChoke)
    /\ k \in { MsgTypeInterested, MsgTypeNotInterested }
         => md.IsInterested = (k = MsgTypeInterested)
    /\ k \in { MsgTypeBitfield, MsgTypePiece } => SliceLen(TailOf(md)) > 0
    /\ k = MsgTypeHandshake
         => /\ Len(md.InfoHash) = 20
            /\ Len(md.PeerId) = 20
            /\ md.ReservedBytes = Str(8, 0)

\* two records of one type have equal fields ([]byte fields: equal bytes)
SameFields(a, b) ==
    /\ a.rec = b.rec
    /\ a.MsgType = b.MsgType
    /\ a.rec = "MsgDataChoke" => a.IsChoking = b.IsChoking
    /\ a.rec = "MsgDataInterested" => a.IsInterested = b.IsInterested
    /\ a.rec = "MsgDataHave" => a.PieceIndex = b.PieceIndex
    /\ a.rec = "MsgDataBitfield"
         => Bytes(heap, a.Bitfield) = Bytes(heap, b.Bitfield)
    /\ a.rec = "MsgDataRequestCancel"
         => /\ a.PieceIndex = b.PieceIndex
            /\ a.PieceBytesBegin = b.PieceBytesBegin
            /\ a.PieceBytesLen = b.PieceBytesLen
    /\ a.rec = "MsgDataPiece"
         => /\ a.PieceIndex = b.PieceIndex
            /\ a.PieceBytesBegin = b.PieceBytesBegin
            /\ Bytes(heap, a.PieceBlock) = Bytes(heap, b.PieceBlock)
    /\ a.rec = "MsgDataPort" => a.PeerPort = b.PeerPort
    /\ a.rec = "MsgDataHandshake"
         => /\ a.ProtocolStrLen = b.ProtocolStrLen
            /\ a.ProtocolStr = b.ProtocolStr
            /\ a.ReservedBytes = b.ReservedBytes
            /\ a.InfoHash = b.InfoHash
            /\ a.PeerId = b.PeerId

\* C1: round trip.  For every kind K among Choke..KeepAlive and every valid
\* payload P, EncodeMessage(K, P) succeeds and DecodeMessage of its output
\* (the <len> prefix handled as the revision's decoder expects) succeeds and
\* returns a message of kind K whose fields equal those of P.
C1_RoundTrip ==
    /\ (op = "encode" /\ ValidPayload(msgType, msgData)) => encOk
    /\ (op = "loopback" /\ ValidPayload(msgType, msgData)) =>
         /\ decOk
         /\ ~fault
         /\ decMsg # Nil
         /\ SameFields(decMsg, msgData)

-----------------------------------------------------------------------------
(* C2 *)

\* the buffer is shorter than the kind it is classified as needs
TooShort ==
    \/ /\ clsType \in { MsgTypeHave, MsgTypeRequest, MsgTypePiece,
                        MsgTypeCancel, MsgTypePort }
       /\ SliceLen(buf) - IdPos(rev) < MinLen(clsType)
    \/ /\ clsType = MsgTypeHandshake
       /\ SliceLen(buf) < MinLen(MsgTypeHandshake)

\* C2: for every non-empty buffer shorter than the minimum length of the
\* kind GetMessageType classifies it as, DecodeMessage returns (nil, false)
\* and does not fault.
C2_TruncatedFails ==
    (op = "decode" /\ SliceLen(buf) > 0 /\ TooShort) =>
      /\ ~fault
      /\ ~decOk
      /\ decMsg = Nil

-----------------------------------------------------------------------------
(* C3 *)

\* C3: in every revision, GetMessageType returns a kind in Choke..Port,
\* Handshake (only on a buffer with the handshake header) or Invalid; an id
\* byte above 9 on a buffer without the handshake header gives Invalid.
C3_IdAbovePortIsInvalid ==
    op = "classify" =>
      /\ \/ clsType \in MsgTypeChoke..MsgTypePort
         \/ clsType = MsgTypeInvalid
         \/ clsType = MsgTypeHandshake /\ IsHandshakeHeader(heap, buf)
      /\ (/\ ~IsHandshakeHeader(heap, buf)
          /\ SliceLen(buf) > IdPos(rev)
          /\ BufBytes[IdPos(rev) + 1] > MsgTypePort)
           => clsType = MsgTypeInvalid

-----------------------------------------------------------------------------
(* C4 *)

\* C4: for every 16-bit port p, EncodeMessage(Port, {p}) succeeds and returns
\* 00 00 00 03 09 H L with H = p div 256 and L = p mod 256, and
\* getUint16FromBytes(getBytesFromUint16(p)) = p.
C4_PortBigEndian ==
    (op = "encode" /\ msgType = MsgTypePort /\ msgData.rec = "MsgDataPort") =>
      /\ encOk
      /\ encBuf = << 0, 0, 0, 3, 9,
                     msgData.PeerPort \div 256, msgData.PeerPort % 256 >>
      /\ getUint16FromBytes(getBytesFromUint16(msgData.PeerPort))
           = msgData.PeerPort

-----------------------------------------------------------------------------
(* C7 *)

\* C7: EncodeMessage with kind KeepAlive succeeds and returns 00 00 00 00 for
\* every payload argument, a nil one included.
C7_KeepAliveAnyPayload ==
    (op = "encode" /\ msgType = MsgTypeKeepAlive) =>
      /\ encOk
      /\ encBuf = << 0, 0, 0, 0 >>

-----------------------------------------------------------------------------
(* C8 *)

\* C8: every successful EncodeMessage(Handshake, M) returns exactly 68 bytes:
\* 19, "BitTorrent protocol", eight zero bytes, M's info hash at [28,48) and
\* M's peer id at [48,68).
C8_HandshakeIs68Bytes ==
    (op = "encode" /\ msgType = MsgTypeHandshake /\ encOk) =>
      /\ Len(encBuf) = 68
      /\ encBuf[1] = 19
      /\ SubSeq(encBuf, 2, 20) = goTrntHeader
      /\ SubSeq(encBuf, 21, 28) = Str(8, 0)
      /\ SubSeq(encBuf, 29, 48) = msgData.InfoHash
      /\ SubSeq(encBuf, 49, 68) = msgData.PeerId

-----------------------------------------------------------------------------
(* C9 *)

\* C9: a decoded Bitfield or Piece keeps the bytes it had when DecodeMessage
\* returned, whatever the caller writes into its buffer afterwards.
C9_DecodedTailImmutable ==
    (op = "overwrite" /\ decOk
       /\ decMsg.rec \in { "MsgDataBitfield", "MsgDataPiece" })
      => Bytes(heap, TailOf(decMsg)) = snap

=============================================================================
